---- MODULE Spec2Model ----
(***************************************************************************)
(* ServerListViewSet.list of server/views.py: the list endpoint of the     *)
(* Server resource.  The state is the stored Server records, the QuerySet  *)
(* held by the class attribute ServerListViewSet.queryset (its query and   *)
(* its result cache), and the request being answered with its response.    *)
(*                                                                         *)
(* Query parameters arrive as strings: a string is a sequence of           *)
(* one-character strings, so that int() and the f-string of the not-found  *)
(* message are computed on its characters.  NONE stands for Python's None  *)
(* (parameter absent); it is no string of single characters.               *)
(***************************************************************************)
EXTENDS Integers, Sequences, FiniteSets, TLC

\* Bounds of the model.
MaxServers == 2
MaxQty == 1

NONE == <<"None">>
AnonymousUser == "AnonymousUser"
Users == {"u1", "u2"}
Categories == {<<"a">>, <<"b">>}
true == <<"t", "r", "u", "e">>

VARIABLES servers, queryset, request, response

vars == <<servers, queryset, request, response>>

----------------------------------------------------------------------------
(* Python values *)

Digits == <<"0", "1", "2", "3", "4", "5", "6", "7", "8", "9">>

IsDigit(c) == \E n \in 1..10 : Digits[n] = c

DigitValue(c) == (CHOOSE n \in 1..10 : Digits[n] = c) - 1

RECURSIVE int_digits(_)
int_digits(s) ==
    IF s = <<>> THEN 0
    ELSE 10 * int_digits(SubSeq(s, 1, Len(s) - 1)) + DigitValue(s[Len(s)])

\* int(s) raises ValueError unless s is a non-empty string of digits.
int_raises(s) == s = <<>> \/ \E i \in 1..Len(s) : ~ IsDigit(s[i])

\* int(s) of a string of digits.
int(s) == int_digits(s)

\* str(n) for a one-digit n.
str(n) == <<Digits[n + 1]>>

\* Python truthiness of a query parameter: neither None nor the empty string.
Truthy(p) == p # NONE /\ p # <<>>

\* xs[:n] on a list, n >= 0.
Take(xs, n) == SubSeq(xs, 1, IF n < Len(xs) THEN n ELSE Len(xs))

----------------------------------------------------------------------------
(* The ORM: a QuerySet is a query, a result cache and an object identity   *)
(* (cls: it is the object the class attribute holds).  A query is the      *)
(* conjunction of its WHERE clauses, kept per column as the set of values  *)
(* required, an annotation flag and the LIMIT (a set of at most one).      *)

\* Server.objects.all(): no WHERE clause, no annotation, no LIMIT.
all_query ==
    [category |-> {}, member |-> {}, id |-> {}, annotate |-> FALSE, high_mark |-> {}]

RECURSIVE OrderById(_)
OrderById(S) ==
    IF S = {} THEN <<>>
    ELSE LET m == CHOOSE x \in S : \A y \in S : x <= y
         IN  <<m>> \o OrderById(S \ {m})

\* Count("member"): the rows of the member join that survive the WHERE clause.
\* annotate() reuses the join that an earlier filter(member=...) made.
CountMember(query, store, i) ==
    Cardinality({u \in store[i].member : \A m \in query.member : u = m})

\* The rows a query selects from the stored records, in default (id) order.
Execute(query, store) ==
    LET hit(i) == /\ \A c \in query.category : store[i].category = c
                  /\ \A m \in query.member : m \in store[i].member
                  /\ \A k \in query.id : i = k
        ids == OrderById({i \in DOMAIN store : hit(i)})
        row(i) == IF query.annotate
                  THEN [id |-> i, category |-> store[i].category,
                        num_members |-> CountMember(query, store, i)]
                  ELSE [id |-> i, category |-> store[i].category]
        rows == [k \in 1..Len(ids) |-> row(ids[k])]
    IN  IF query.high_mark = {} THEN rows
        ELSE Take(rows, CHOOSE n \in query.high_mark : TRUE)

\* A clone: the given query, an empty result cache, an object of its own.
Chain(query) == [query |-> query, fetched |-> FALSE, result_cache |-> <<>>, cls |-> FALSE]

\* Mutant: the category clause is lost.
filter_category_dropped(qs, category) == Chain(qs.query)

filter_category(qs, category) ==
    Chain([qs.query EXCEPT !.category = @ \cup {category}])

filter_member(qs, user_id) ==
    Chain([qs.query EXCEPT !.member = @ \cup {user_id}])

annotate_num_members(qs) ==
    Chain([qs.query EXCEPT !.annotate = TRUE])

\* filter(id=by_serverid): the value is converted by int(); its ValueError
\* escapes filter().
filter_id_raises(by_serverid) == int_raises(by_serverid)

\* Mutant: the id clause is lost.
filter_id_dropped(qs, by_serverid) == Chain(qs.query)

filter_id(qs, by_serverid) ==
    Chain([qs.query EXCEPT !.id = @ \cup {int(by_serverid)}])

\* Mutant: the existence check always passes.
exists_unchecked(qs, store) == TRUE

\* QuerySet.exists(): answered from the result cache when there is one.
exists(qs, store) ==
    IF qs.fetched THEN qs.result_cache # <<>>
    ELSE Execute(qs.query, store) # <<>>

\* QuerySet[:n]: a slice of the cached list when there is one, else a clone
\* with a LIMIT.
slice(qs, n) ==
    IF qs.fetched
    THEN [query |-> qs.query, fetched |-> TRUE,
          result_cache |-> Take(qs.result_cache, n), cls |-> FALSE]
    ELSE Chain([qs.query EXCEPT !.high_mark = {n}])

\* Iterating a QuerySet: the cached rows, or the rows fetched now.
fetch_all(qs, store) ==
    IF qs.fetched THEN qs.result_cache ELSE Execute(qs.query, store)

----------------------------------------------------------------------------
(* The serializer and the responses *)

\* ServerSerializer(..., many=True, context={"num_members": ...}).data
ServerSerializer(rows, with_num_members) ==
    [k \in 1..Len(rows) |->
        IF with_num_members
        THEN [id |-> rows[k].id, category |-> rows[k].category,
              num_members |-> rows[k].num_members]
        ELSE [id |-> rows[k].id, category |-> rows[k].category]]

Response(data) == [status |-> "200 OK", data |-> data, detail |-> <<>>]

AuthenticationFailed == [status |-> "AuthenticationFailed", data |-> <<>>, detail |-> <<>>]

ValidationError(detail) == [status |-> "ValidationError", data |-> <<>>, detail |-> detail]

\* An exception list() does not catch.
ValueError == [status |-> "ValueError", data |-> <<>>, detail |-> <<>>]

\* f"Server with id {by_serverid} not found"
not_found_detail(by_serverid) == <<"Server with id ">> \o by_serverid \o <<" not found">>

value_error_detail == <<"Server value error">>

\* Mutant: the ValueError is not caught.
on_value_error_uncaught == ValueError

\* except ValueError: raise ValidationError(detail="Server value error")
on_value_error == ValidationError(value_error_detail)

----------------------------------------------------------------------------
(* ServerListViewSet.list *)

is_authenticated(user) == user # AnonymousUser

by_user_of(req) == req.by_user = true

with_num_members_of(req) == req.num_members = true

\* Mutant: by_user no longer asks for by_serverid.
by_user_allowed_without_serverid(req) ==
    by_user_of(req) /\ is_authenticated(req.user)

\* if by_user and by_serverid and request.user.is_authenticated
by_user_allowed(req) ==
    by_user_of(req) /\ Truthy(req.by_serverid) /\ is_authenticated(req.user)

\* Mutant: by_serverid is open to anyone.
by_serverid_never_refused(req) == FALSE

\* if not request.user.is_authenticated
by_serverid_refused(req) == ~ is_authenticated(req.user)

\* self.queryset after lines 48-59, when no exception was raised there.
narrowed(req, qs) ==
    LET q1 == IF Truthy(req.category) THEN filter_category(qs, req.category) ELSE qs
        q2 == IF by_user_of(req) THEN filter_member(q1, req.user) ELSE q1
    IN  IF with_num_members_of(req) THEN annotate_num_members(q2) ELSE q2

\* self.queryset at line 74, when no exception was raised before.
final_queryset(req, qs) ==
    LET q3 == narrowed(req, qs)
        q4 == IF Truthy(req.by_serverid) THEN filter_id(q3, req.by_serverid) ELSE q3
    IN  IF Truthy(req.qty) THEN slice(q4, int(req.qty)) ELSE q4

\* The outcome of one call: the response, or the exception raised.
list_call(req, qs, store) ==
    IF by_user_of(req) /\ ~ by_user_allowed(req)
        THEN AuthenticationFailed
    ELSE IF Truthy(req.by_serverid) /\ by_serverid_refused(req)
        THEN AuthenticationFailed
    ELSE IF Truthy(req.by_serverid) /\ filter_id_raises(req.by_serverid)
        THEN on_value_error
    ELSE IF Truthy(req.by_serverid)
            /\ ~ exists(filter_id(narrowed(req, qs), req.by_serverid), store)
        THEN ValidationError(not_found_detail(req.by_serverid))
    ELSE IF Truthy(req.qty) /\ int_raises(req.qty)
        THEN ValueError
    ELSE Response(ServerSerializer(fetch_all(final_queryset(req, qs), store),
                                   with_num_members_of(req)))

\* The call iterated the QuerySet object of the class attribute itself.
evaluates_class_queryset(req, qs, store) ==
    /\ list_call(req, qs, store).status = "200 OK"
    /\ final_queryset(req, qs).cls

----------------------------------------------------------------------------
(* The state machine *)

\* queryset = Server.objects.all(), as the class body leaves it: not evaluated.
fresh_queryset ==
    [query |-> all_query, fetched |-> FALSE, result_cache |-> <<>>, cls |-> TRUE]

\* The requests of the model.  Category names are interchangeable and the
\* stored servers range over all of them: the category asked for is "a".
QueryParams ==
    [category : {NONE, <<"a">>},
     qty : {NONE, <<"x">>} \cup {str(n) : n \in 0..MaxQty},
     by_user : {NONE, true},
     by_serverid : {NONE, <<>>, <<"a", "b", "c">>} \cup {str(n) : n \in 1..MaxServers},
     num_members : {NONE, true},
     user : {AnonymousUser} \cup Users]

\* No request is being answered.
NoRequest ==
    [category |-> NONE, qty |-> NONE, by_user |-> NONE, by_serverid |-> NONE,
     num_members |-> NONE, user |-> AnonymousUser]

NoResponse == [status |-> "none", data |-> <<>>, detail |-> <<>>]

Init ==
    /\ servers = <<>>
    /\ queryset = fresh_queryset
    /\ request = NoRequest
    /\ response = NoResponse

\* A request arrives and list() answers it.  Iterating the class attribute's
\* own QuerySet fills that object's result cache.
list(req) ==
    /\ response = NoResponse
    /\ response' = list_call(req, queryset, servers)
    /\ queryset' = IF evaluates_class_queryset(req, queryset, servers)
                   THEN [queryset EXCEPT !.fetched = TRUE,
                                         !.result_cache = fetch_all(queryset, servers)]
                   ELSE queryset
    /\ request' = req
    /\ UNCHANGED servers

\* The response leaves; the view instance of the call is dropped.
Return ==
    /\ response # NoResponse
    /\ request' = NoRequest
    /\ response' = NoResponse
    /\ UNCHANGED <<servers, queryset>>

\* A Server record is stored under the next id.
CreateServer(category) ==
    /\ response = NoResponse
    /\ Len(servers) < MaxServers
    /\ servers' = Append(servers, [category |-> category, member |-> {}])
    /\ UNCHANGED <<queryset, request, response>>

\* A user joins a server.
AddMember(i, u) ==
    /\ response = NoResponse
    /\ i \in DOMAIN servers
    /\ u \notin servers[i].member
    /\ servers' = [servers EXCEPT ![i].member = @ \cup {u}]
    /\ UNCHANGED <<queryset, request, response>>

Next ==
    \/ \E req \in QueryParams : list(req)
    \/ Return
    \/ \E c \in Categories : CreateServer(c)
    \/ \E i \in 1..MaxServers, u \in Users : AddMember(i, u)

Spec == Init /\ [][Next]_vars

----------------------------------------------------------------------------
(* What the claims speak of *)

\* A request has been answered and its response is in hand.
Answered == response # NoResponse

Ok == response.status = "200 OK"

Authenticated == request.user # AnonymousUser

HasServerid == request.by_serverid # NONE /\ request.by_serverid # <<>>

HasCategory == request.category # NONE /\ request.category # <<>>

HasQty == request.qty # NONE /\ request.qty # <<>>

IsNumber(s) == s # <<>> /\ \A i \in 1..Len(s) : \E d \in 1..10 : Digits[d] = s[i]

NoParameters ==
    /\ request.category = NONE /\ request.qty = NONE /\ request.by_user = NONE
    /\ request.by_serverid = NONE /\ request.num_members = NONE

\* The stored servers that the category and by_user filters asked for leave.
LeftByEarlierFilters ==
    {i \in DOMAIN servers :
        /\ HasCategory => servers[i].category = request.category
        /\ request.by_user = true => request.user \in servers[i].member}

\* The stored servers that match every filter asked for.
Matching ==
    {i \in LeftByEarlierFilters : HasServerid => i = int(request.by_serverid)}

DataIds == [k \in 1..Len(response.data) |-> response.data[k].id]

Contains(text, part) ==
    \E i \in 1..(Len(text) - Len(part) + 1) : SubSeq(text, i, i + Len(part) - 1) = part

----------------------------------------------------------------------------
(* C1 *)

\* C1: a request without query parameters is answered with every Server record
\* stored at that time, unfiltered and without member counts.
C1_NoParametersReturnsEveryServer ==
    (Answered /\ NoParameters) =>
        /\ Ok
        /\ {response.data[k] : k \in 1..Len(response.data)}
             = {[id |-> i, category |-> servers[i].category] : i \in DOMAIN servers}

(* C2 *)

\* C2: an unauthenticated caller asking for by_user="true" or giving by_serverid
\* gets AuthenticationFailed and no data, whatever the other parameters are.
C2_UnauthenticatedRefused ==
    (Answered /\ ~ Authenticated /\ (request.by_user = true \/ HasServerid)) =>
        /\ response.status = "AuthenticationFailed"
        /\ response.data = <<>>

C2_Witness ==
    /\ Answered /\ ~ Authenticated
    /\ request.by_user = NONE
    /\ request.by_serverid = <<"a", "b", "c">>
    /\ request.qty = <<"x">>
    /\ request.num_members = true
    /\ response.status = "AuthenticationFailed"

(* C3 *)

C4_OnlyAndAllOfCategory ==
    (Answered /\ HasCategory /\ Ok) =>
        /\ \A k \in 1..Len(response.data) : response.data[k].category = request.category
        /\ DataIds = IF HasQty THEN Take(OrderById(Matching), int(request.qty))
                     ELSE OrderById(Matching)

UnknownCategory == \A i \in DOMAIN servers : servers[i].category # request.category

\* C4 as stated: with a category X, only and all matching servers of category
\* X are returned, and an unknown X gives an empty list, never an error.
\* (Stated for a qty that is absent or a number: a malformed qty is set aside.)
C4_Original ==
    /\ C4_OnlyAndAllOfCategory
    /\ (Answered /\ HasCategory /\ UnknownCategory /\ (HasQty => IsNumber(request.qty)))
        => (Ok /\ response.data = <<>>)

\* C4 amended: an unknown X gives an empty list and no error when no other
\* parameter asks for an error: by_user is not "true", by_serverid is absent or
\* empty, and qty is absent, empty or a number.
C4_Amended ==
    /\ C4_OnlyAndAllOfCategory
    /\ (Answered /\ HasCategory /\ UnknownCategory
          /\ request.by_user # true /\ ~ HasServerid
          /\ (HasQty => IsNumber(request.qty)))
        => (Ok /\ response.data = <<>>)

C4_Witness ==
    /\ Answered /\ HasCategory /\ UnknownCategory
    /\ servers # <<>>
    /\ request.num_members = true
    /\ Ok /\ response.data = <<>>

(* C5 *)

\* C5 as stated: an authenticated caller giving the id k of a stored server
\* gets exactly one record, with id k.
\* (Stated for a qty that is absent or a number: a malformed qty is set aside.)
C5_Original ==
    (Answered /\ Authenticated /\ HasServerid /\ IsNumber(request.by_serverid)
       /\ int(request.by_serverid) \in DOMAIN servers
       /\ (HasQty => IsNumber(request.qty)))
    => (Ok /\ Len(response.data) = 1 /\ response.data[1].id = int(request.by_serverid))

\* C5 amended: an authenticated caller giving the id k of a stored server
\* that the category and by_user filters leave, with qty absent, empty or a
\* number of at least 1, gets exactly one record, with id k.
C5_Amended ==
    (Answered /\ Authenticated /\ HasServerid /\ IsNumber(request.by_serverid)
       /\ int(request.by_serverid) \in LeftByEarlierFilters
       /\ (HasQty => (IsNumber(request.qty) /\ int(request.qty) >= 1)))
    => (Ok /\ Len(response.data) = 1 /\ response.data[1].id = int(request.by_serverid))

C5_Witness ==
    /\ Answered /\ Authenticated /\ HasCategory /\ request.by_user = true
    /\ request.by_serverid = <<"2">>
    /\ Len(servers) = 2
    /\ Ok /\ Len(response.data) = 1 /\ response.data[1].id = 2

(* C6 *)

\* C6: an authenticated caller giving an id k that is not among the servers
\* the earlier filters leave gets a ValidationError whose message contains k,
\* never an empty list.
C6_NotFound ==
    (Answered /\ Authenticated /\ HasServerid /\ IsNumber(request.by_serverid)
       /\ int(request.by_serverid) \notin LeftByEarlierFilters)
    => (response.status = "ValidationError"
          /\ Contains(response.detail, request.by_serverid))

C6_Witness ==
    /\ Answered /\ Authenticated /\ HasServerid /\ IsNumber(request.by_serverid)
    /\ int(request.by_serverid) \in DOMAIN servers
    /\ int(request.by_serverid) \notin LeftByEarlierFilters
    /\ response.status = "ValidationError"

(* C7 *)

\* C7: with num_members="true" every returned item carries the number of
\* distinct members of its server, whatever the other filters are.
C7_CountsEveryMember ==
    (Answered /\ Ok /\ request.num_members = true) =>
        \A k \in 1..Len(response.data) :
            response.data[k].num_members
              = Cardinality(servers[response.data[k].id].member)

(* C8 *)

\* C8: with qty = N the response is the first min(N, M) of the M matching
\* servers in default order, each with its annotation when num_members was
\* requested.
C8_FirstNOfMatching ==
    (Answered /\ Ok /\ HasQty /\ IsNumber(request.qty)) =>
        /\ DataIds = Take(OrderById(Matching), int(request.qty))
        /\ \A k \in 1..Len(response.data) :
              (request.num_members = true)
                <=> ("num_members" \in DOMAIN response.data[k])

(* C9 *)

\* C9: an authenticated caller giving a by_serverid that is no identifier gets
\* a ValidationError with the message "Server value error", which is not the
\* not-found message; no other failure escapes.
C9_ValueError ==
    (Answered /\ Authenticated /\ HasServerid /\ ~ IsNumber(request.by_serverid)) =>
        /\ response.status = "ValidationError"
        /\ response.detail = <<"Server value error">>
        /\ response.detail # <<"Server with id ">> \o request.by_serverid \o <<" not found">>

C9_Witness ==
    /\ Answered /\ Authenticated
    /\ request.by_serverid = <<"a", "b", "c">>
    /\ request.by_user = true
    /\ request.qty = <<"x">>
    /\ response.status = "ValidationError"

(* C10 *)

\* C10: the outcome of a request is that of the same request handled first,
\* on the same stored data: earlier calls leave nothing behind.
C10_AsIfHandledFirst ==
    Answered => response = list_call(request, fresh_queryset, servers)

====
